---- MODULE Spec2Model ----
(***************************************************************************)
(* Model of the tulva BitTorrent client: the disk I/O engine (DiskIO), the *)
(* peer manager (PeerManager), the peer ranking by qtyPiecesNeeded, the    *)
(* start and shutdown of a Torrent, and NewPeerInfo.                       *)
(***************************************************************************)
EXTENDS Integers, Sequences, FiniteSets, TLC

VARIABLES
    metaInfo,        \* DiskIO.metaInfo.Info: PieceLength, Pieces, Length, Files
    exists,          \* per backing file: does it exist before DiskIO.Init
    disk,            \* per backing file: its bytes on disk
    files,           \* DiskIO.files: open handles (writable flag, read position)
    phase,           \* "new" -> "inited" (Init) -> "running" (Verify done, Run started)
    proc,            \* "alive" | "panic" (runtime panic) | "fatal" (log.Fatal)
    finishedPieces,  \* the result of Verify
    units,           \* the goroutines started by DiskIO.Run, in dispatch order
    receivedPiece,   \* events delivered on contChans.receivedPiece, in order
    dying,           \* DiskIO.t.Kill was called
    done,            \* DiskIO.Run returned (t.Done)
    peers,           \* PeerManager.peers: peerID -> *Peer
    delivered,       \* the peer tuples received on peersCh so far, in order
    nextPeer,        \* the next address handed out by new(Peer)
    pmDying,         \* PeerManager.t.Kill was called
    pmDone,          \* PeerManager.Run returned
    peerInfos,       \* the map handed to sortedPeersByQtyPiecesNeeded
    ranged,          \* the order in which its range loop visited the map
    peerInfoSlice,   \* the slice it returns
    sorted,          \* it has returned
    runDef,          \* which of the two definitions of Torrent.Run is running
    tpc,             \* Torrent.Run: the position in its statements
    tDying,          \* Torrent.t.Kill was called (Torrent.Stop)
    tDone,           \* Torrent.Run returned (t.Done)
    stopReturned,    \* Torrent.Stop returned
    children,        \* per component: its Run goroutine and its tomb
    created          \* the PeerInfos made by NewPeerInfo, with the argument

diskVars == <<metaInfo, exists, disk, files, phase, proc, finishedPieces,
              units, receivedPiece, dying, done>>
pmVars   == <<peers, delivered, nextPeer, pmDying, pmDone>>
sortVars == <<peerInfos, ranged, peerInfoSlice, sorted>>
torVars  == <<runDef, tpc, tDying, tDone, stopReturned, children>>
infoVars == <<created>>
vars     == <<diskVars, pmVars, sortVars, torVars, infoVars>>

----------------------------------------------------------------------------
(* Bounds *)

\* work units DiskIO.Run dispatches in one run
MaxUnits == 2
\* peer tuples received on peersCh in one run
MaxDeliveries == 4
\* entries of the map handed to sortedPeersByQtyPiecesNeeded
MaxPeers == 4
\* largest qtyPiecesNeeded in that map
MaxQty == 2
\* calls of NewPeerInfo in one run
MaxCalls == 3
\* largest quantityOfPieces handed to NewPeerInfo
MaxPieces == 4

----------------------------------------------------------------------------
(* Helpers on sequences *)

Min(a, b) == IF a < b THEN a ELSE b
Max(a, b) == IF a > b THEN a ELSE b

RECURSIVE SumLen(_, _)
SumLen(fs, k) == IF k = 0 THEN 0 ELSE fs[k].Length + SumLen(fs, k - 1)

RECURSIVE Concat(_, _)
Concat(ss, k) == IF k = 0 THEN <<>> ELSE Concat(ss, k - 1) \o ss[k]

Zeros(n) == [k \in 1..n |-> 0]

----------------------------------------------------------------------------
(* Torrent metainfo (MetaInfo.Info) *)

HashSize == 20

\* crypto/sha1, idealised as a collision-free digest of the buffer
Sha1(buf) == [sha1 |-> buf]

\* the byte of the torrent's content at global offset g
Content(g) == (g % 3) + 1

IsMulti(mi) == Len(mi.Files) > 0

TotalLength(mi) == IF IsMulti(mi) THEN SumLen(mi.Files, Len(mi.Files)) ELSE mi.Length

NumPieces(mi) == (TotalLength(mi) + mi.PieceLength - 1) \div mi.PieceLength

PieceSize(mi, index) ==
    Max(0, Min(mi.PieceLength, TotalLength(mi) - index * mi.PieceLength))

TruePiece(mi, index) ==
    [k \in 1..PieceSize(mi, index) |-> Content(index * mi.PieceLength + k - 1)]

\* the declared lengths of the backing files, in order
FileLens(mi) ==
    IF IsMulti(mi) THEN [i \in 1..Len(mi.Files) |-> mi.Files[i].Length]
    ELSE <<mi.Length>>

FileStart(mi, i) == LET l == FileLens(mi) IN
    SumLen([k \in 1..Len(l) |-> [Length |-> l[k]]], i - 1)

TrueFile(mi, i) == [k \in 1..FileLens(mi)[i] |-> Content(FileStart(mi, i) + k - 1)]

Layout(pl, length, lens) ==
    LET mi0 == [PieceLength |-> pl, Length |-> length,
                Files |-> [i \in 1..Len(lens) |-> [Length |-> lens[i]]],
                Pieces |-> <<>>]
    IN [mi0 EXCEPT !.Pieces = [k \in 1..NumPieces(mi0) |-> Sha1(TruePiece(mi0, k - 1))]]

\* multiple file mode (the first is the layout of the specification's
\* example) and single file mode
RunLayouts ==
    { Layout(16, 0, <<10, 22>>),
      Layout(2, 0, <<2, 3>>),
      Layout(2, 3, <<>>) }

Layouts == RunLayouts \cup { Layout(4, 0, <<1, 2, 3>>), Layout(3, 6, <<>>) }

----------------------------------------------------------------------------
(* The file system before DiskIO.Init *)

Corrupt(s, k) == [s EXCEPT ![k] = 0]

\* what is on disk for file i: nothing, the whole file, the file with its
\* first byte wrong, or the file without its last byte
FileStates == {"absent", "full", "corrupt", "short"}

FileBytes(mi, i, st) ==
    CASE st = "absent"  -> <<>>
      [] st = "full"    -> TrueFile(mi, i)
      [] st = "corrupt" -> Corrupt(TrueFile(mi, i), 1)
      [] st = "short"   -> SubSeq(TrueFile(mi, i), 1, FileLens(mi)[i] - 1)

----------------------------------------------------------------------------
(* os.File *)

\* os.File.ReadAt(b, off) with len(b) = n: the bytes read and whether it
\* ended in io.EOF (always the case when fewer than n bytes were read)
ReadAt(content, n, off) ==
    LET got == Max(0, Min(n, Len(content) - off))
    IN [n |-> got, eof |-> got < n, bytes |-> SubSeq(content, off + 1, off + got)]

\* the file's bytes after os.File.WriteAt(b, off) succeeded; a gap between
\* the old end of the file and off reads as zeros, and writing no bytes
\* leaves the file as it is
WriteAt(content, b, off) ==
    LET end == IF Len(b) = 0 THEN Len(content) ELSE Max(Len(content), off + Len(b))
    IN [k \in 1..end |->
          IF k > off /\ k <= off + Len(b) THEN b[k - off]
          ELSE IF k <= Len(content) THEN content[k] ELSE 0]

\* os.Create for a file that does not exist (read-write, truncated),
\* os.Open for one that does (read-only)
openOrCreateFile(fileExists) == [writable |-> ~fileExists, pos |-> 0]

----------------------------------------------------------------------------
(* DiskIO.checkHash and DiskIO.Verify *)

\* Pieces[pieceIndex:pieceIndex+h.Size()] is out of range
checkHashPanics(mi, pieceIndex) == pieceIndex + HashSize > HashSize * Len(mi.Pieces)

checkHash(mi, buf, pieceIndex) == Sha1(buf) = mi.Pieces[(pieceIndex \div HashSize) + 1]

\* buf[m:] overwritten by the bytes of one ReadAt
Fill(buf, m, bytes) ==
    [k \in 1..Len(buf) |-> IF k > m /\ k <= m + Len(bytes) THEN bytes[k - m] ELSE buf[k]]

\* one appended result of checkHash, or the panic of its slice expression
Checked(mi, st, buf) ==
    IF checkHashPanics(mi, st.pieceIndex) THEN [st EXCEPT !.panic = TRUE]
    ELSE [st EXCEPT !.finishedPieces = Append(@, checkHash(mi, buf, st.pieceIndex))]

\* the inner loop of the multiple file mode over file i, from offset
RECURSIVE VerifyFile(_, _, _, _, _)
VerifyFile(mi, dsk, i, offset, st) ==
    LET r   == ReadAt(dsk[i], mi.PieceLength - st.m, offset)
        buf == Fill(st.buf, st.m, r.bytes)
    IN IF st.panic THEN st
       ELSE IF r.eof THEN [st EXCEPT !.buf = buf, !.m = st.m + r.n]
       ELSE VerifyFile(mi, dsk, i, offset + r.n,
                [Checked(mi, st, buf) EXCEPT !.buf = buf, !.m = 0,
                                             !.pieceIndex = st.pieceIndex + HashSize])

RECURSIVE VerifyFiles(_, _, _, _)
VerifyFiles(mi, dsk, i, st) ==
    IF i > Len(mi.Files) THEN st
    ELSE VerifyFiles(mi, dsk, i + 1, VerifyFile(mi, dsk, i, 0, st))

VerifyMultiNoTail(mi, dsk) ==
    VerifyFiles(mi, dsk, 1, [buf |-> Zeros(mi.PieceLength), m |-> 0, pieceIndex |-> 0,
                             finishedPieces |-> <<>>, panic |-> FALSE])

VerifyMulti(mi, dsk) ==
    LET st == VerifyFiles(mi, dsk, 1,
                 [buf |-> Zeros(mi.PieceLength), m |-> 0, pieceIndex |-> 0,
                  finishedPieces |-> <<>>, panic |-> FALSE])
    IN IF ~st.panic /\ st.m > 0 THEN Checked(mi, st, SubSeq(st.buf, 1, st.m)) ELSE st

\* the loop of the single file mode, from offset
RECURSIVE VerifySingleLoop(_, _, _, _)
VerifySingleLoop(mi, dsk, offset, st) ==
    LET r   == ReadAt(dsk[1], mi.PieceLength, offset)
        buf == Fill(st.buf, 0, r.bytes)
    IN IF st.panic THEN st
       ELSE IF r.eof THEN [st EXCEPT !.buf = buf, !.m = r.n]
       ELSE VerifySingleLoop(mi, dsk, offset + r.n,
                [Checked(mi, st, buf) EXCEPT !.buf = buf, !.m = r.n,
                                             !.pieceIndex = st.pieceIndex + HashSize])

VerifySingle(mi, dsk) ==
    LET st == VerifySingleLoop(mi, dsk, 0,
                 [buf |-> Zeros(mi.PieceLength), m |-> 0, pieceIndex |-> 0,
                  finishedPieces |-> <<>>, panic |-> FALSE])
    IN IF ~st.panic /\ st.m > 0 THEN Checked(mi, st, SubSeq(st.buf, 1, st.m)) ELSE st

\* DiskIO.Verify: the list of results, or the panic of checkHash
Verify(mi, dsk) == IF IsMulti(mi) THEN VerifyMulti(mi, dsk) ELSE VerifySingle(mi, dsk)

----------------------------------------------------------------------------
(* Start of the disk engine: NewDiskIO, DiskIO.Init, DiskIO.Verify *)

\* every file in any of the states, or all files in the same state
AnyFileStates(mi) == [1..Len(FileLens(mi)) -> FileStates]
SameFileStates(mi) == { [i \in 1..Len(FileLens(mi)) |-> st] : st \in {"absent", "full"} }

DiskInitWith(layouts, same) ==
    /\ metaInfo \in layouts
    /\ \E fst \in (IF same THEN SameFileStates(metaInfo) ELSE AnyFileStates(metaInfo)) :
          /\ exists = [i \in DOMAIN fst |-> fst[i] # "absent"]
          /\ disk = [i \in DOMAIN fst |-> FileBytes(metaInfo, i, fst[i])]
    /\ files = <<>>
    /\ phase = "new"
    /\ proc = "alive"
    /\ finishedPieces = <<>>
    /\ units = <<>>
    /\ receivedPiece = <<>>
    /\ dying = FALSE
    /\ done = FALSE

PmIdle ==
    /\ peers = <<>>
    /\ delivered = <<>>
    /\ nextPeer = 1
    /\ pmDying = FALSE
    /\ pmDone = FALSE

SortIdle ==
    /\ peerInfos = <<>>
    /\ ranged = <<>>
    /\ peerInfoSlice = <<>>
    /\ sorted = FALSE

TorIdle ==
    /\ runDef = 1
    /\ tpc = 1
    /\ tDying = FALSE
    /\ tDone = FALSE
    /\ stopReturned = FALSE
    /\ children = <<>>

InfoIdle == created = <<>>

\* DiskIO.Init: open or create every backing file
DiskIOInit ==
    /\ phase = "new"
    /\ proc = "alive"
    /\ files' = [i \in DOMAIN exists |-> openOrCreateFile(exists[i])]
    /\ exists' = [i \in DOMAIN exists |-> TRUE]
    /\ phase' = "inited"
    /\ UNCHANGED <<metaInfo, disk, proc, finishedPieces, units, receivedPiece, dying, done>>
    /\ UNCHANGED <<pmVars, sortVars, torVars, infoVars>>

\* pieces := diskIO.Verify(); go diskIO.Run()
DiskIOVerify ==
    /\ phase = "inited"
    /\ proc = "alive"
    /\ LET st == Verify(metaInfo, disk)
       IN /\ finishedPieces' = st.finishedPieces
          /\ proc' = IF st.panic THEN "panic" ELSE "alive"
          /\ phase' = IF st.panic THEN "inited" ELSE "running"
    /\ UNCHANGED <<metaInfo, exists, disk, files, units, receivedPiece, dying, done>>
    /\ UNCHANGED <<pmVars, sortVars, torVars, infoVars>>

----------------------------------------------------------------------------
(* DiskIO.Run and the goroutines it starts *)

BadPiece(mi, index) == Corrupt(TruePiece(mi, index), 1)

\* the Piece values peers send on peerChans.writePiece: peerA sends the
\* bytes of the piece, peerB sends them with the first byte wrong
Pieces(mi) ==
    UNION { { [index |-> x, peerName |-> "peerA", data |-> TruePiece(mi, x)],
              [index |-> x, peerName |-> "peerB", data |-> BadPiece(mi, x)] } :
            x \in 0..(NumPieces(mi) - 1) }

\* the BlockInfo values peers send on peerChans.blockRequest
BlockInfos(mi) ==
    UNION { { [pieceIndex |-> x, length |-> n] :
                n \in {PieceSize(mi, x), mi.PieceLength} \ {0} } :
            x \in 0..NumPieces(mi) }

NoBlock == [pieceIndex |-> 0, length |-> 0]

Alive == phase = "running" /\ proc = "alive"

SetUnit(u, r) == [units EXCEPT ![u] = r]

ReceivedPieceOfLatest(r) ==
    [pieceNum |-> units[Len(units)].index, peerName |-> units[Len(units)].peerName]

\* ReceivedPiece{pieceNum: piece.index, peerName: piece.peerName}, of the
\* piece the goroutine was started for
ReceivedPiece(r) == [pieceNum |-> r.index, peerName |-> r.peerName]

\* case piece := <-diskio.peerChans.writePiece: go func() {...}()
RunWritePiece ==
    /\ Alive /\ ~done
    /\ Len(units) < MaxUnits
    /\ \E piece \in Pieces(metaInfo) :
          units' = Append(units,
              [kind |-> "write", pc |-> "loop", index |-> piece.index,
               peerName |-> piece.peerName, data |-> piece.data, orig |-> piece.data,
               offset |-> piece.index * metaInfo.PieceLength, i |-> 0, max |-> 0,
               block |-> NoBlock, response |-> <<>>, reads |-> 0,
               wrote |-> <<>>, ioerr |-> FALSE,
               after |-> {v \in DOMAIN units : units[v].pc \in {"send", "done"}}])
    /\ UNCHANGED <<metaInfo, exists, disk, files, phase, proc, finishedPieces,
                   receivedPiece, dying, done>>
    /\ UNCHANGED <<pmVars, sortVars, torVars, infoVars>>

\* case blockRequest := <-diskio.peerChans.blockRequest: go func() {...}()
RunBlockRequest ==
    /\ Alive /\ ~done
    /\ Len(units) < MaxUnits
    /\ \E block \in BlockInfos(metaInfo) :
          units' = Append(units,
              [kind |-> "read", pc |-> "loop", index |-> block.pieceIndex,
               peerName |-> "", data |-> <<>>, orig |-> <<>>,
               offset |-> block.pieceIndex * metaInfo.PieceLength, i |-> 0, max |-> 0,
               block |-> block, response |-> <<>>, reads |-> 0,
               wrote |-> <<>>, ioerr |-> FALSE,
               after |-> {v \in DOMAIN units : units[v].pc \in {"send", "done"}}])
    /\ UNCHANGED <<metaInfo, exists, disk, files, phase, proc, finishedPieces,
                   receivedPiece, dying, done>>
    /\ UNCHANGED <<pmVars, sortVars, torVars, infoVars>>

\* DiskIO.Stop: diskio.t.Kill(nil); t.Wait() returns once Run has returned
Stop ==
    /\ Alive /\ ~dying
    /\ dying' = TRUE
    /\ UNCHANGED <<metaInfo, exists, disk, files, phase, proc, finishedPieces,
                   units, receivedPiece, done>>
    /\ UNCHANGED <<pmVars, sortVars, torVars, infoVars>>

\* case <-diskio.t.Dying(): return (and the deferred t.Done)
RunDying ==
    /\ Alive /\ dying /\ ~done
    /\ done' = TRUE
    /\ UNCHANGED <<metaInfo, exists, disk, files, phase, proc, finishedPieces,
                   units, receivedPiece, dying>>
    /\ UNCHANGED <<pmVars, sortVars, torVars, infoVars>>

\* DiskIO.writePiece: one pass of the loop up to the call of WriteAt
writePieceLoop(u) ==
    /\ Alive
    /\ units[u].kind = "write" /\ units[u].pc = "loop"
    /\ LET r == units[u]
           n == Len(metaInfo.Files)
       IN IF r.i > n
          THEN units' = SetUnit(u, [r EXCEPT !.pc = "send"]) /\ proc' = proc
          ELSE IF r.i >= n
          THEN \* Files[i]: index out of range
               units' = SetUnit(u, [r EXCEPT !.pc = "crashed"]) /\ proc' = "panic"
          ELSE IF r.offset > metaInfo.Files[r.i + 1].Length
          THEN /\ units' = SetUnit(u, [r EXCEPT
                              !.offset = r.offset - metaInfo.Files[r.i + 1].Length,
                              !.i = r.i + 1])
               /\ proc' = proc
          ELSE LET max == metaInfo.Files[r.i + 1].Length - r.offset
               IN IF max > Len(r.data)
                  THEN \* piece.data[:max]: slice bounds out of range
                       units' = SetUnit(u, [r EXCEPT !.pc = "crashed"]) /\ proc' = "panic"
                  ELSE units' = SetUnit(u, [r EXCEPT !.pc = "io", !.max = max])
                       /\ proc' = proc
    /\ UNCHANGED <<metaInfo, exists, disk, files, phase, finishedPieces,
                   receivedPiece, dying, done>>
    /\ UNCHANGED <<pmVars, sortVars, torVars, infoVars>>

\* DiskIO.writePiece: files[i].WriteAt(piece.data[:max], offset) and the rest
\* of the pass; the write fails on a read-only handle or when the disk does
writePieceWriteAt(u) ==
    /\ Alive
    /\ units[u].kind = "write" /\ units[u].pc = "io"
    /\ \E fail \in BOOLEAN :
         LET r == units[u]
             f == r.i + 1
             b == SubSeq(r.data, 1, r.max)
             rest == SubSeq(r.data, r.max + 1, Len(r.data))
         IN IF Len(b) > 0 /\ (fail \/ ~files[f].writable)
            THEN \* log.Fatal(err)
                 /\ units' = SetUnit(u, [r EXCEPT !.pc = "crashed", !.ioerr = TRUE])
                 /\ proc' = "fatal"
                 /\ disk' = disk
            ELSE /\ disk' = [disk EXCEPT ![f] = WriteAt(@, b, r.offset)]
                 /\ proc' = proc
                 /\ units' = SetUnit(u, [r EXCEPT
                        !.wrote = Append(@, [file |-> f, off |-> r.offset, bytes |-> b]),
                        !.data = rest,
                        !.offset = 0,
                        !.i = IF Len(rest) = 0 THEN r.i ELSE r.i + 1,
                        !.pc = IF Len(rest) = 0 THEN "send" ELSE "loop"])
    /\ UNCHANGED <<metaInfo, exists, files, phase, finishedPieces,
                   receivedPiece, dying, done>>
    /\ UNCHANGED <<pmVars, sortVars, torVars, infoVars>>

\* diskio.contChans.receivedPiece <- ReceivedPiece{...}, taken by the controller
RunSend(u) ==
    /\ Alive
    /\ units[u].kind = "write" /\ units[u].pc = "send"
    /\ receivedPiece' = Append(receivedPiece, [unit |-> u, msg |-> ReceivedPiece(units[u])])
    /\ units' = SetUnit(u, [units[u] EXCEPT !.pc = "done"])
    /\ UNCHANGED <<metaInfo, exists, disk, files, phase, proc, finishedPieces, dying, done>>
    /\ UNCHANGED <<pmVars, sortVars, torVars, infoVars>>

\* DiskIO.requestBlock: the choice of the file, up to the call of readBlock
requestBlockLoop(u) ==
    /\ Alive
    /\ units[u].kind = "read" /\ units[u].pc = "loop"
    /\ LET r == units[u]
           n == Len(metaInfo.Files)
       IN IF n = 0
          THEN units' = SetUnit(u, [r EXCEPT !.pc = "io"]) /\ proc' = proc
          ELSE IF r.i > n
          THEN units' = SetUnit(u, [r EXCEPT !.pc = "respond"]) /\ proc' = proc
          ELSE IF r.i >= n
          THEN \* Files[i]: index out of range
               units' = SetUnit(u, [r EXCEPT !.pc = "crashed"]) /\ proc' = "panic"
          ELSE IF r.offset > metaInfo.Files[r.i + 1].Length
          THEN /\ units' = SetUnit(u, [r EXCEPT
                              !.offset = r.offset - metaInfo.Files[r.i + 1].Length,
                              !.i = r.i + 1])
               /\ proc' = proc
          ELSE units' = SetUnit(u, [r EXCEPT !.pc = "io"]) /\ proc' = proc
    /\ UNCHANGED <<metaInfo, exists, disk, files, phase, finishedPieces,
                   receivedPiece, dying, done>>
    /\ UNCHANGED <<pmVars, sortVars, torVars, infoVars>>

\* DiskIO.readBlock: io.ReadFull(file, blockData) from the handle's position
readBlock(u) ==
    /\ Alive
    /\ units[u].kind = "read" /\ units[u].pc = "io"
    /\ LET r == units[u]
           f == r.i + 1
           pos == files[f].pos
           got == ReadAt(disk[f], r.block.length, pos)
       IN IF got.eof
          THEN \* io.EOF or io.ErrUnexpectedEOF: log.Fatal(err)
               /\ units' = SetUnit(u, [r EXCEPT !.pc = "crashed", !.ioerr = TRUE])
               /\ proc' = "fatal"
               /\ files' = [files EXCEPT ![f].pos = pos + got.n]
          ELSE /\ files' = [files EXCEPT ![f].pos = pos + got.n]
               /\ proc' = proc
               /\ units' = SetUnit(u, [r EXCEPT
                      !.response = got.bytes,
                      !.reads = r.reads + 1,
                      !.i = IF IsMulti(metaInfo) THEN r.i + 1 ELSE r.i,
                      !.pc = IF IsMulti(metaInfo) THEN "loop" ELSE "respond"])
    /\ UNCHANGED <<metaInfo, exists, disk, phase, finishedPieces,
                   receivedPiece, dying, done>>
    /\ UNCHANGED <<pmVars, sortVars, torVars, infoVars>>

\* blockRequest.response <- diskio.requestBlock(...), taken by the peer
RunRespond(u) ==
    /\ Alive
    /\ units[u].kind = "read" /\ units[u].pc = "respond"
    /\ units' = SetUnit(u, [units[u] EXCEPT !.pc = "done"])
    /\ UNCHANGED <<metaInfo, exists, disk, files, phase, proc, finishedPieces,
                   receivedPiece, dying, done>>
    /\ UNCHANGED <<pmVars, sortVars, torVars, infoVars>>

InitDisk == DiskInitWith(RunLayouts, TRUE) /\ PmIdle /\ SortIdle /\ TorIdle /\ InfoIdle
NextDisk ==
    \/ DiskIOInit
    \/ DiskIOVerify
    \/ RunWritePiece
    \/ RunBlockRequest
    \/ Stop
    \/ RunDying
    \/ \E u \in DOMAIN units : writePieceLoop(u)
    \/ \E u \in DOMAIN units : writePieceWriteAt(u)
    \/ \E u \in DOMAIN units : RunSend(u)
    \/ \E u \in DOMAIN units : requestBlockLoop(u)
    \/ \E u \in DOMAIN units : readBlock(u)
    \/ \E u \in DOMAIN units : RunRespond(u)
SpecDisk == InitDisk /\ [][NextDisk]_vars

InitVerify == DiskInitWith(Layouts, FALSE) /\ PmIdle /\ SortIdle /\ TorIdle /\ InfoIdle
NextVerify == DiskIOInit \/ DiskIOVerify
SpecVerify == InitVerify /\ [][NextVerify]_vars

----------------------------------------------------------------------------
(* PeerManager *)

DiskIdle ==
    /\ metaInfo = Layout(2, 3, <<>>)
    /\ exists = <<FALSE>>
    /\ disk = <<<<>>>>
    /\ files = <<>>
    /\ phase = "new"
    /\ proc = "alive"
    /\ finishedPieces = <<>>
    /\ units = <<>>
    /\ receivedPiece = <<>>
    /\ dying = FALSE
    /\ done = FALSE

\* the PeerTuple values the tracker sends on peersCh
IPs == {<<1, 1, 1, 1>>, <<1, 1, 1, 11>>, <<10, 0, 0, 2>>}
Ports == {1, 11}
PeerTuples == [IP : IPs, Port : Ports]

DecimalDigits == <<"0", "1", "2", "3", "4", "5", "6", "7", "8", "9">>

\* the %d verb: the decimal digits of n
RECURSIVE Itoa(_)
Itoa(n) ==
    IF n < 10 THEN <<DecimalDigits[n + 1]>>
    ELSE Itoa(n \div 10) \o <<DecimalDigits[(n % 10) + 1]>>

\* net.IP.String() of a 4-byte address: dotted decimal
IPString(ip) ==
    Itoa(ip[1]) \o <<".">> \o Itoa(ip[2]) \o <<".">> \o Itoa(ip[3]) \o <<".">> \o Itoa(ip[4])

\* fmt.Sprintf("%s:%d", peer.IP.String(), peer.Port)
PeerID(peer) == IPString(peer.IP) \o <<":">> \o Itoa(peer.Port)

\* NewPeer: new(Peer) at a fresh address; the tuple is printed, not stored
NewPeer(peerTuple, addr) == [addr |-> addr, peer |-> "zero", conn |-> "nil"]

\* pm.peers[peerID] = p
Put(m, peerID, p) == [id \in DOMAIN m \cup {peerID} |-> IF id = peerID THEN p ELSE m[id]]

RegisterAlways(m, peer, addr) == Put(m, PeerID(peer), NewPeer(peer, addr))

\* the body of case peer := <-pm.peersCh
Register(m, peer, addr) ==
    IF PeerID(peer) \in DOMAIN m THEN m ELSE Put(m, PeerID(peer), NewPeer(peer, addr))

\* case peer := <-pm.peersCh
RunPeers ==
    /\ ~pmDone
    /\ Len(delivered) < MaxDeliveries
    /\ \E peer \in PeerTuples :
          /\ peers' = Register(peers, peer, nextPeer)
          /\ nextPeer' = IF PeerID(peer) \in DOMAIN peers THEN nextPeer ELSE nextPeer + 1
          /\ delivered' = Append(delivered, peer)
    /\ UNCHANGED <<pmDying, pmDone>>
    /\ UNCHANGED <<diskVars, sortVars, torVars, infoVars>>

\* case conn := <-pm.connsCh: fmt.Println(conn)
RunConns ==
    /\ ~pmDone
    /\ UNCHANGED <<diskVars, pmVars, sortVars, torVars, infoVars>>

\* PeerManager.Stop: pm.t.Kill(nil); t.Wait() returns once Run has returned
PmStop ==
    /\ ~pmDying
    /\ pmDying' = TRUE
    /\ UNCHANGED <<peers, delivered, nextPeer, pmDone>>
    /\ UNCHANGED <<diskVars, sortVars, torVars, infoVars>>

\* case <-pm.t.Dying(): return (and the deferred t.Done)
PmRunDying ==
    /\ pmDying /\ ~pmDone
    /\ pmDone' = TRUE
    /\ UNCHANGED <<peers, delivered, nextPeer, pmDying>>
    /\ UNCHANGED <<diskVars, sortVars, torVars, infoVars>>

InitPeers == DiskIdle /\ PmIdle /\ SortIdle /\ TorIdle /\ InfoIdle
NextPeers == RunPeers \/ RunConns \/ PmStop \/ PmRunDying
SpecPeers == InitPeers /\ [][NextPeers]_vars

----------------------------------------------------------------------------
(* sortedPeersByQtyPiecesNeeded *)

PeerIds == 1..MaxPeers

\* SortedPeers.Less (i, j from 0)
Less(sp, i, j) == sp[i + 1].qtyPiecesNeeded <= sp[j + 1].qtyPiecesNeeded

SwapNoTmp(sp, i, j) == [sp EXCEPT ![i + 1] = sp[j + 1]]

\* SortedPeers.Swap (i, j from 0)
Swap(sp, i, j) == [sp EXCEPT ![i + 1] = sp[j + 1], ![j + 1] = sp[i + 1]]

\* sort.Sort on a slice this short is insertion sort:
\*   for i := a+1; i < b; i++ {
\*     for j := i; j > a && data.Less(j, j-1); j-- { data.Swap(j, j-1) } }
RECURSIVE InsertionInner(_, _)
InsertionInner(sp, j) ==
    IF j > 0 /\ Less(sp, j, j - 1) THEN InsertionInner(Swap(sp, j, j - 1), j - 1) ELSE sp

RECURSIVE InsertionSort(_, _)
InsertionSort(sp, i) ==
    IF i < Len(sp) THEN InsertionSort(InsertionInner(sp, i), i + 1) ELSE sp

\* the orders in which range can visit the keys of the map
Orders(m) ==
    { o \in [1..Cardinality(DOMAIN m) -> DOMAIN m] :
        \A a, b \in DOMAIN o : a # b => o[a] # o[b] }

\* append every PeerInfo in range order, then sort.Sort
sortedPeersByQtyPiecesNeeded ==
    /\ ~sorted
    /\ \E o \in Orders(peerInfos) :
          /\ ranged' = [k \in DOMAIN o |-> peerInfos[o[k]]]
          /\ peerInfoSlice' = InsertionSort(ranged', 1)
    /\ sorted' = TRUE
    /\ UNCHANGED peerInfos
    /\ UNCHANGED <<diskVars, pmVars, torVars, infoVars>>

InitSort ==
    /\ DiskIdle /\ PmIdle /\ TorIdle /\ InfoIdle
    /\ \E ids \in SUBSET PeerIds :
          \E q \in [ids -> 0..MaxQty] :
             peerInfos = [id \in ids |-> [peerId |-> id, qtyPiecesNeeded |-> q[id]]]
    /\ ranged = <<>>
    /\ peerInfoSlice = <<>>
    /\ sorted = FALSE
NextSort == sortedPeersByQtyPiecesNeeded
SpecSort == InitSort /\ [][NextSort]_vars

----------------------------------------------------------------------------
(* Torrent.Run and Torrent.Stop, in the two definitions of torrent.go *)

\* a statement of Torrent.Run that matters for the shutdown
Go(c)   == <<[op |-> "go", child |-> c]>>
\* c.Stop(): t.Kill(nil), then t.Wait()
StopOf(c) == <<[op |-> "kill", child |-> c], [op |-> "wait", child |-> c]>>
Select  == <<[op |-> "select", child |-> "torrent"]>>
Return  == <<[op |-> "return", child |-> "torrent"]>>

\* the first definition: six components started, four of them stopped
Run1 ==
    Go("diskIO") \o Go("controller") \o Go("stats") \o Go("peerManager")
       \o Go("server") \o Go("trackerManager")
       \o Select
       \o StopOf("server") \o StopOf("peerManager")
       \o StopOf("trackerManager") \o StopOf("diskIO")
       \o Return

\* the second definition: trackerManager.Run is never started
Run2 ==
    Go("io") \o Go("peerManager")
       \o Select
       \o StopOf("trackerManager")
       \o Return

RunDefs == {1, 2}
RunStatements(def) == IF def = 1 THEN Run1 ELSE Run2

\* the components a definition of Torrent.Run constructs
Components(def) ==
    IF def = 1
    THEN {"diskIO", "controller", "stats", "peerManager", "server", "trackerManager"}
    ELSE {"io", "trackerManager", "peerManager"}

\* the components whose Run goroutine a definition starts
Started(def) ==
    {RunStatements(def)[k].child :
        k \in {j \in DOMAIN RunStatements(def) : RunStatements(def)[j].op = "go"}}

\* the statement Torrent.Run is at
At(op) ==
    /\ tpc \in DOMAIN RunStatements(runDef)
    /\ RunStatements(runDef)[tpc].op = op
Child == RunStatements(runDef)[tpc].child

\* go c.Run()
TorrentRunGo ==
    /\ At("go")
    /\ children' = [children EXCEPT ![Child].run = "spawned"]
    /\ tpc' = tpc + 1
    /\ UNCHANGED <<runDef, tDying, tDone, stopReturned>>
    /\ UNCHANGED <<diskVars, pmVars, sortVars, infoVars>>

\* case <-t.t.Dying()
TorrentRunDying ==
    /\ At("select")
    /\ tDying
    /\ tpc' = tpc + 1
    /\ UNCHANGED <<runDef, tDying, tDone, stopReturned, children>>
    /\ UNCHANGED <<diskVars, pmVars, sortVars, infoVars>>

\* c.Stop(), first half: t.Kill(nil)
TorrentRunKill ==
    /\ At("kill")
    /\ children' = [children EXCEPT ![Child].dying = TRUE]
    /\ tpc' = tpc + 1
    /\ UNCHANGED <<runDef, tDying, tDone, stopReturned>>
    /\ UNCHANGED <<diskVars, pmVars, sortVars, infoVars>>

\* c.Stop(), second half: t.Wait() returns once c.Run has called t.Done
TorrentRunWait ==
    /\ At("wait")
    /\ children[Child].run = "returned"
    /\ tpc' = tpc + 1
    /\ UNCHANGED <<runDef, tDying, tDone, stopReturned, children>>
    /\ UNCHANGED <<diskVars, pmVars, sortVars, infoVars>>

\* return, with the deferred t.t.Done()
TorrentRunReturn ==
    /\ At("return")
    /\ tDone' = TRUE
    /\ tpc' = tpc + 1
    /\ UNCHANGED <<runDef, tDying, stopReturned, children>>
    /\ UNCHANGED <<diskVars, pmVars, sortVars, infoVars>>

\* Torrent.Stop, first half: t.t.Kill(nil)
TorrentStop ==
    /\ ~tDying
    /\ tDying' = TRUE
    /\ UNCHANGED <<runDef, tpc, tDone, stopReturned, children>>
    /\ UNCHANGED <<diskVars, pmVars, sortVars, infoVars>>

\* Torrent.Stop, second half: t.t.Wait() returns
TorrentStopReturn ==
    /\ tDying
    /\ tDone
    /\ ~stopReturned
    /\ stopReturned' = TRUE
    /\ UNCHANGED <<runDef, tpc, tDying, tDone, children>>
    /\ UNCHANGED <<diskVars, pmVars, sortVars, infoVars>>

\* the goroutine of c.Run is scheduled and enters its loop
ChildRun(c) ==
    /\ children[c].run = "spawned"
    /\ children' = [children EXCEPT ![c].run = "running"]
    /\ UNCHANGED <<runDef, tpc, tDying, tDone, stopReturned>>
    /\ UNCHANGED <<diskVars, pmVars, sortVars, infoVars>>

\* c.Run: case <-t.Dying(): return, with the deferred t.Done()
ChildRunDying(c) ==
    /\ children[c].run = "running"
    /\ children[c].dying
    /\ children' = [children EXCEPT ![c].run = "returned"]
    /\ UNCHANGED <<runDef, tpc, tDying, tDone, stopReturned>>
    /\ UNCHANGED <<diskVars, pmVars, sortVars, infoVars>>

InitTorrent ==
    /\ DiskIdle /\ PmIdle /\ SortIdle /\ InfoIdle
    /\ runDef \in RunDefs
    /\ tpc = 1
    /\ tDying = FALSE
    /\ tDone = FALSE
    /\ stopReturned = FALSE
    /\ children = [c \in Components(runDef) |-> [run |-> "none", dying |-> FALSE]]

NextTorrent ==
    \/ TorrentRunGo
    \/ TorrentRunDying
    \/ TorrentRunKill
    \/ TorrentRunWait
    \/ TorrentRunReturn
    \/ TorrentStop
    \/ TorrentStopReturn
    \/ \E c \in DOMAIN children : ChildRun(c)
    \/ \E c \in DOMAIN children : ChildRunDying(c)

SpecTorrent == InitTorrent /\ [][NextTorrent]_vars

----------------------------------------------------------------------------
(* NewPeerInfo *)

\* new(PeerInfo) leaves every field at its zero value; NewPeerInfo then makes
\* the slice, the map and two of the three channels
NewPeerInfo(quantityOfPieces) ==
    [peerId          |-> "",
     isChoked        |-> FALSE,
     availablePieces |-> [k \in 1..quantityOfPieces |-> FALSE],
     activeRequests  |-> {},
     qtyPiecesNeeded |-> 0,
     requestPieceCh  |-> "made",
     cancelPieceCh   |-> "made",
     havePieceCh     |-> "nil"]

\* pi := NewPeerInfo(quantityOfPieces)
CallNewPeerInfo ==
    /\ Len(created) < MaxCalls
    /\ \E quantityOfPieces \in 0..MaxPieces :
          created' = Append(created, [quantityOfPieces |-> quantityOfPieces,
                                      pi |-> NewPeerInfo(quantityOfPieces)])
    /\ UNCHANGED <<diskVars, pmVars, sortVars, torVars>>

InitPeerInfo == DiskIdle /\ PmIdle /\ SortIdle /\ TorIdle /\ created = <<>>
NextPeerInfo == CallNewPeerInfo
SpecPeerInfo == InitPeerInfo /\ [][NextPeerInfo]_vars

----------------------------------------------------------------------------
(* Properties of the disk engine *)

RECURSIVE SumBytes(_, _)
SumBytes(ws, k) == IF k = 0 THEN 0 ELSE Len(ws[k].bytes) + SumBytes(ws, k - 1)

\* the (global offset, byte) pairs a unit has written
Placed(r) ==
    UNION { { <<FileStart(metaInfo, r.wrote[k].file) + r.wrote[k].off + j - 1,
                r.wrote[k].bytes[j]>> : j \in 1..Len(r.wrote[k].bytes) } :
            k \in DOMAIN r.wrote }

\* where the bytes of a piece belong
Expected(r) == { <<r.index * metaInfo.PieceLength + j - 1, r.orig[j]>> : j \in 1..Len(r.orig) }

Writes == {u \in DOMAIN units : units[u].kind = "write"}
Reads  == {u \in DOMAIN units : units[u].kind = "read"}

\* the unit has run to the end of writePiece or requestBlock, or died in it
Ended(r) == r.pc \in {"send", "respond", "done", "crashed"}

\* the unit died of a runtime panic, not of a failed file operation
Panicked(r) == r.pc = "crashed" /\ ~r.ioerr

\* C1: in multiple file mode, writePiece of a piece followed by requestBlock
\* over the same byte range completes and returns exactly the bytes written.
C1_RoundTrip ==
    IsMulti(metaInfo) =>
      /\ \A w \in Writes : ~Panicked(units[w])
      /\ \A w \in Writes, r \in Reads :
            ( /\ w \in units[r].after
              /\ units[r].block = [pieceIndex |-> units[w].index,
                                   length |-> Len(units[w].orig)]
              /\ \A v \in Writes : units[v].index = units[w].index => v = w
              /\ Ended(units[r]) )
            => units[r].pc # "crashed" /\ units[r].response = units[w].orig

\* C2: in multiple file mode, writePiece puts byte j of the piece at global
\* offset index*PieceLength + j, len(data) bytes in all and nothing else.
C2_WritePlacement ==
    IsMulti(metaInfo) =>
      \A w \in Writes :
         (Ended(units[w]) /\ ~units[w].ioerr) =>
            /\ units[w].pc # "crashed"
            /\ Placed(units[w]) = Expected(units[w])
            /\ SumBytes(units[w].wrote, Len(units[w].wrote)) = Len(units[w].orig)

\* C3: in single file mode, writePiece completes with one positional write
\* of all of the data at offset index*PieceLength of the single file.
C3_SingleFileWrite ==
    ~IsMulti(metaInfo) =>
      \A w \in Writes :
         (units[w].pc # "loop" /\ ~units[w].ioerr) =>
            /\ units[w].pc # "crashed"
            /\ units[w].pc \in {"send", "done"} =>
                  units[w].wrote = <<[file |-> 1,
                                      off |-> units[w].index * metaInfo.PieceLength,
                                      bytes |-> units[w].orig]>>

VerifyRan == phase = "running" \/ (phase = "inited" /\ proc = "panic")

\* C4: Verify returns one boolean per piece hash and raises no error, also
\* when files were just created empty or are shorter than declared.
C4_VerifyOnePerPiece ==
    VerifyRan => proc = "alive" /\ Len(finishedPieces) = Len(metaInfo.Pieces)

FilesComplete == \A i \in DOMAIN disk : Len(disk[i]) = FileLens(metaInfo)[i]

\* the bytes of piece k (from 0) of the concatenated files
OnDiskPiece(k) ==
    SubSeq(Concat(disk, Len(disk)), k * metaInfo.PieceLength + 1,
           Min((k + 1) * metaInfo.PieceLength, TotalLength(metaInfo)))

\* C5: with every file at its declared length, the k-th result of Verify is
\* the comparison of the hash of bytes [k*PieceLength, min((k+1)*PieceLength,
\* total)) of the concatenated files with the k-th recorded digest.
C5_VerifyCompleteFiles ==
    (phase = "running" /\ FilesComplete) =>
       finishedPieces = [k \in 1..NumPieces(metaInfo) |->
                            Sha1(OnDiskPiece(k - 1)) = metaInfo.Pieces[k]]

\* a piece across two file boundaries fails and the short last piece passes
C5_Witness ==
    /\ phase = "running" /\ FilesComplete
    /\ Len(metaInfo.Files) = 3
    /\ finishedPieces = <<FALSE, TRUE>>

\* C6: an I/O failure inside writePiece fails only that request: the
\* process is not terminated and the engine goes on.
C6_WriteFailureIsLocal ==
    \A w \in Writes : units[w].ioerr => proc = "alive"

OutOfRange(block) ==
    block.pieceIndex * metaInfo.PieceLength + block.length > TotalLength(metaInfo)

\* C7: requestBlock for a range beyond the end of the last file fails
\* cleanly: no data is read, the file list is not indexed past its end and
\* the process is not terminated.
C7_OutOfRangeRead ==
    \A r \in Reads :
       (OutOfRange(units[r].block) /\ Ended(units[r])) =>
          /\ proc = "alive"
          /\ units[r].pc # "crashed"
          /\ units[r].reads = 0

EventsOf(u) == {k \in DOMAIN receivedPiece : receivedPiece[k].unit = u}

\* C8: every piece whose write succeeded gets exactly one event on
\* receivedPiece, with its index and its peer name, and only after
\* writePiece has written all of it.
C8_CompletionEvents ==
    /\ \A k \in DOMAIN receivedPiece :
          LET r == units[receivedPiece[k].unit]
          IN /\ r.kind = "write"
             /\ Len(r.data) = 0
             /\ SumBytes(r.wrote, Len(r.wrote)) = Len(r.orig)
             /\ receivedPiece[k].msg = [pieceNum |-> r.index, peerName |-> r.peerName]
    /\ \A w \in Writes :
          /\ Cardinality(EventsOf(w)) = IF units[w].pc = "done" THEN 1 ELSE 0
          /\ (Len(units[w].data) = 0 /\ units[w].pc # "io")
                => units[w].pc \in {"send", "done"}

\* two pieces from two peers were written and reported
C8_Witness ==
    /\ Len(receivedPiece) = 2
    /\ receivedPiece[1].msg.pieceNum # receivedPiece[2].msg.pieceNum
    /\ receivedPiece[1].msg.peerName # receivedPiece[2].msg.peerName

\* C14: writePiece and requestBlock never index the file list outside
\* [0, number of files) and never slice the piece data beyond its length,
\* and every write lands inside the declared length of its file.
C14_IndexAndSliceBounds ==
    \A u \in DOMAIN units :
       /\ ~Panicked(units[u])
       /\ units[u].pc = "io" =>
             /\ units[u].i < Len(FileLens(metaInfo))
             /\ units[u].max <= Len(units[u].data)
       /\ \A k \in DOMAIN units[u].wrote :
             LET w == units[u].wrote[k]
             IN /\ w.file \in DOMAIN FileLens(metaInfo)
                /\ w.off >= 0
                /\ w.off + Len(w.bytes) <= FileLens(metaInfo)[w.file]

\* C16: every piece reported on receivedPiece has passed checkHash: the
\* bytes handed to writePiece hash to the digest recorded for its index.
C16_ReportedAfterHash ==
    \A k \in DOMAIN receivedPiece :
       LET r == units[receivedPiece[k].unit]
       IN /\ ~checkHashPanics(metaInfo, r.index * HashSize)
          /\ checkHash(metaInfo, r.orig, r.index * HashSize)

\* the goroutines of Run that have not come to their end
InProgress == {u \in DOMAIN units : units[u].pc \notin {"done", "crashed"}}

\* C17: the goroutines in progress at one time stay below a fixed number,
\* however many pieces and block requests arrive: of MaxUnits messages
\* received, at least one has to wait until another is finished.
C17_BoundedInProgress ==
    proc = "alive" => Cardinality(InProgress) < MaxUnits

\* the goroutines inside WriteAt or ReadFull on the handle of file f
InsideIO(f) == {u \in DOMAIN units : units[u].pc = "io" /\ units[u].i + 1 = f}

\* C18: no two goroutines are inside a file operation on the same handle
\* at the same time.
C18_PerFileSerialized ==
    proc = "alive" => \A f \in DOMAIN files : Cardinality(InsideIO(f)) <= 1

\* C19: two writes of the same piece index are reported in the order in
\* which they finished: if one had finished before the other was even
\* started, its event is received first.
C19_EventsInFinishOrder ==
    \A j, k \in DOMAIN receivedPiece :
       LET a == receivedPiece[j].unit
           b == receivedPiece[k].unit
       IN (units[a].index = units[b].index /\ a \in units[b].after) => j < k

\* C20: once Run has returned, and so once DiskIO.Stop has returned, no
\* goroutine started by Run is still in progress or blocked.
C20_StopLeavesNothingRunning ==
    (proc = "alive" /\ dying /\ done) => InProgress = {}

----------------------------------------------------------------------------
(* Properties of the peer manager and of the ranking *)

Identities == {delivered[k] : k \in DOMAIN delivered}

FirstSeen(t) == CHOOSE k \in DOMAIN delivered :
                   delivered[k] = t /\ \A j \in 1..(k - 1) : delivered[j] # t

\* the address new(Peer) returned when t was first registered
FirstAddr(t) == Cardinality({delivered[j] : j \in 1..FirstSeen(t)})

\* C9: after any sequence of tuples on peersCh the map holds exactly one
\* entry per distinct (IP, port), and it is the entry made when that
\* identity was first registered: registering it again changes nothing.
C9_OneEntryPerIdentity ==
    /\ Cardinality(DOMAIN peers) = Cardinality(Identities)
    /\ \A t \in Identities :
          /\ PeerID(t) \in DOMAIN peers
          /\ peers[PeerID(t)].addr = FirstAddr(t)
    /\ \A id \in DOMAIN peers :
          Cardinality({t \in Identities : PeerID(t) = id}) = 1

\* an identity was delivered twice, between two others
C9_Witness ==
    /\ Len(delivered) = 4
    /\ delivered[1] = delivered[3]
    /\ Cardinality(DOMAIN peers) = 3

\* C10: the result of sortedPeersByQtyPiecesNeeded holds every peer of the
\* map exactly once, in order of non-decreasing qtyPiecesNeeded.
C10_SortedPermutation ==
    sorted =>
       /\ Len(peerInfoSlice) = Cardinality(DOMAIN peerInfos)
       /\ \A id \in DOMAIN peerInfos :
             Cardinality({k \in DOMAIN peerInfoSlice : peerInfoSlice[k] = peerInfos[id]}) = 1
       /\ \A k \in 1..(Len(peerInfoSlice) - 1) :
             peerInfoSlice[k].qtyPiecesNeeded <= peerInfoSlice[k + 1].qtyPiecesNeeded

\* need-counts 2, 1, 1, 0 visited in that order come out as 0, 1, 1, 2
C10_Witness ==
    /\ sorted
    /\ [k \in DOMAIN ranged |-> ranged[k].qtyPiecesNeeded] = <<2, 1, 1, 0>>
    /\ [k \in DOMAIN peerInfoSlice |-> peerInfoSlice[k].qtyPiecesNeeded] = <<0, 1, 1, 2>>

\* position of the peer id in a slice of PeerInfo
PosIn(sp, id) == CHOOSE k \in DOMAIN sp : sp[k].peerId = id

\* C11: the comparator of the ranking is strict and the ranking is stable:
\* Less(i, i) is never true, Less(i, j) and Less(j, i) are never both true,
\* and two peers with the same qtyPiecesNeeded come out in the order in
\* which they went in.
C11_StrictStableRanking ==
    sorted =>
       /\ \A i \in 0..(Len(ranged) - 1) : ~Less(ranged, i, i)
       /\ \A i, j \in 0..(Len(ranged) - 1) : ~(Less(ranged, i, j) /\ Less(ranged, j, i))
       /\ \A a, b \in DOMAIN ranged :
             (a < b /\ ranged[a].qtyPiecesNeeded = ranged[b].qtyPiecesNeeded)
                => PosIn(peerInfoSlice, ranged[a].peerId) < PosIn(peerInfoSlice, ranged[b].peerId)

----------------------------------------------------------------------------
(* Properties of the shutdown of a Torrent *)

\* the components whose Run goroutine Torrent.Run has started
StartedChildren == {c \in DOMAIN children : children[c].run # "none"}

\* C12: once Torrent.Run has reported done, and so once Torrent.Stop has
\* returned, every component Torrent.Run started has been told to stop and
\* its Run has returned.
C12_ChildrenStopped ==
    (tDone \/ stopReturned) =>
       \A c \in StartedChildren : children[c].dying /\ children[c].run = "returned"

\* C13: in both definitions of Torrent.Run, after Torrent.Stop was called
\* the shutdown never gets stuck: until Torrent.Stop has returned there is
\* always a step one of the goroutines can take.
C13_StopTerminates ==
    tDying => (stopReturned \/ ENABLED NextTorrent)

----------------------------------------------------------------------------
(* Properties of NewPeerInfo *)

\* C15: a PeerInfo made by NewPeerInfo(n) is choked, has n availablePieces
\* that are all false, no active request and qtyPiecesNeeded 0.
C15_NewPeerInfoDefaults ==
    \A k \in DOMAIN created :
       LET pi == created[k].pi
       IN /\ pi.isChoked = TRUE
          /\ Len(pi.availablePieces) = created[k].quantityOfPieces
          /\ \A x \in DOMAIN pi.availablePieces : pi.availablePieces[x] = FALSE
          /\ pi.activeRequests = {}
          /\ pi.qtyPiecesNeeded = 0

====
